---- MODULE Spec2Model ----
(***************************************************************************)
(* A model of the proxy server facade (src/src/http-proxy/index.ts, the    *)
(* ProxyServer class of lines 200-368), of the factory in src/src/index.ts *)
(* and of the WebSocket passes in src/src/http-proxy/passes/ws-incoming.ts.*)
(*                                                                         *)
(* A pass is a record [name, ret, builtin]: name is the function's name    *)
(* (what before/after compare with passName), ret is what a stage supplied *)
(* by the caller returns (TRUE = truthy), builtin tells the stages of the  *)
(* two fixed lists from the stages inserted with before/after.             *)
(***************************************************************************)
EXTENDS Integers, Sequences, FiniteSets, TLC

VARIABLES
  webPasses,     \* this.webPasses
  wsPasses,      \* this.wsPasses
  lastOp,        \* the last before/after call: its arguments and how it ended
  options,       \* this.options, the server's own options record
  errListeners,  \* this.listeners("error"), in the order they were attached
  rq,            \* the request dispatched last: its arguments and what happened to it
  crashed,       \* an exception escaped an I/O callback (uncaught)
  tunnel,        \* the bytes of one spliced pair of sockets: queues and deliveries
  srv,           \* this._server and the listeners listen() created
  fn             \* one call of a helper function: its arguments and its result

\* the variables outside the dispatch of requests
side == <<tunnel, srv, fn>>

vars == <<webPasses, wsPasses, lastOp, options, errListeners, rq, crashed, side>>

----------------------------------------------------------------------------
(* Bounds of the model. *)

\* how many stages before/after may add to the two lists together
MaxInserts == 2
\* how many error listeners the caller may have attached at one time
MaxUserListeners == 2

----------------------------------------------------------------------------
(* Small helpers on sequences. *)

Range(s) == {s[k] : k \in 1..Len(s)}

\* Array.prototype.splice(i, 0, x) with a 0-based index i: x becomes element i.
Splice(s, i, x) == SubSeq(s, 1, i) \o <<x>> \o SubSeq(s, i + 1, Len(s))

\* s without its element at 1-based position k
RemoveAt(s, k) == SubSeq(s, 1, k - 1) \o SubSeq(s, k + 1, Len(s))

Names(passes) == {passes[k].name : k \in 1..Len(passes)}

NamesDistinct(passes) ==
  \A i, j \in 1..Len(passes) : i # j => passes[i].name # passes[j].name

----------------------------------------------------------------------------
(* The pass lists the constructor builds. *)

Builtin(n) == [name |-> n, ret |-> FALSE, builtin |-> TRUE]

\* Object.values(wsPasses): the default export of passes/ws-incoming.ts, in key order
WsPassesInit == <<Builtin("checkMethodAndHeader"), Builtin("xHeaders"), Builtin("stream")>>

\* Object.values(webPasses): passes/web-incoming.ts is not among the sources;
\* the order is the one the specification fixes.
WebPassesInit ==
  <<Builtin("deleteLength"), Builtin("timeout"), Builtin("xHeaders"), Builtin("stream")>>

\* the stages a caller hands to before/after: a fresh name or the name of a
\* built-in pass, returning falsy or truthy
StageNames == {"mine", "stream"}
Stages == [name : StageNames, ret : BOOLEAN, builtin : {FALSE}]

\* the type and passName arguments tried
Types == {"web", "ws", "http"}
PassNames == {"stream", "xHeaders", "mine", "nope"}

NoOp == [op |-> "none", type |-> "web", passName |-> "stream",
         callback |-> Builtin("stream"), result |-> "ok"]

Called(op, type, passName, callback, result) ==
  [op |-> op, type |-> type, passName |-> passName, callback |-> callback,
   result |-> result]

----------------------------------------------------------------------------
(* before / after *)

\* passes.forEach(function (v, idx) { if (v.name === passName) i = idx; }):
\* the 0-based index of the LAST pass named passName, -1 for `false`.
FindPass(passes, passName) ==
  LET hits == {k \in 1..Len(passes) : passes[k].name = passName}
  IN IF hits = {} THEN -1
     ELSE (CHOOSE k \in hits : \A m \in hits : m <= k) - 1

\* variants of the two splices, one slip each
BeforeSpliceBehind(passes, i, callback) == Splice(passes, i + 1, callback)
BeforeSpliceOver(passes, i, callback) ==
  SubSeq(passes, 1, i) \o <<callback>> \o SubSeq(passes, i + 2, Len(passes))
AfterSpliceBehind(passes, i, callback) == Splice(passes, i + 1, callback)

\* passes.splice(i, 0, callback)
BeforeSplice(passes, i, callback) == Splice(passes, i, callback)

\* passes.splice(i++, 0, callback): the post-increment yields i, so the stage
\* is inserted at the anchor's own index
AfterSplice(passes, i, callback) == Splice(passes, i, callback)

\* variant: only "ws" is told from the rest
InvalidTypeUnchecked(type) == FALSE

\* if (type !== "ws" && type !== "web") throw new Error(...)
InvalidType(type) == type # "ws" /\ type # "web"

\* the body before and after share: the type check, the search, the splice
Insert(op, type, passName, callback) ==
  IF InvalidType(type)
  THEN /\ lastOp' = Called(op, type, passName, callback, "InvalidKind")
       /\ UNCHANGED <<webPasses, wsPasses>>
  ELSE LET passes == IF type = "ws" THEN wsPasses ELSE webPasses
           i == FindPass(passes, passName)
           spliced == IF op = "before" THEN BeforeSplice(passes, i, callback)
                      ELSE AfterSplice(passes, i, callback)
       IN IF i = -1
          THEN /\ lastOp' = Called(op, type, passName, callback, "NoSuchPass")
               /\ UNCHANGED <<webPasses, wsPasses>>
          ELSE /\ lastOp' = Called(op, type, passName, callback, "ok")
               /\ IF type = "ws"
                  THEN wsPasses' = spliced /\ UNCHANGED webPasses
                  ELSE webPasses' = spliced /\ UNCHANGED wsPasses

RoomForInsert == Len(webPasses) + Len(wsPasses) <
                   Len(WebPassesInit) + Len(WsPassesInit) + MaxInserts

\* before and after are setup calls: the lists are not changed once requests
\* are being dispatched
Setup == rq.kind = "none"

Before(type, passName, callback) ==
  /\ ~crashed
  /\ Setup
  /\ RoomForInsert
  /\ Insert("before", type, passName, callback)
  /\ UNCHANGED <<options, errListeners, rq, crashed, side>>

After(type, passName, callback) ==
  /\ ~crashed
  /\ Setup
  /\ RoomForInsert
  /\ Insert("after", type, passName, callback)
  /\ UNCHANGED <<options, errListeners, rq, crashed, side>>

----------------------------------------------------------------------------
(* Options.  A target or forward value is undefined, a URL string or a     *)
(* parsed URL record; a per-call options object may also lack the key.     *)

OptVals == {"undef", "str", "url"}
CallVals == OptVals \cup {"nokey"}

\* { ...this.options, ...options }: own keys of the per-call object win,
\* an own key holding undefined included
MergeOptions(server, percall) ==
  [target  |-> IF percall.target = "nokey" THEN server.target ELSE percall.target,
   forward |-> IF percall.forward = "nokey" THEN server.forward ELSE percall.forward]

\* if (typeof requestOptions[e] === "string") requestOptions[e] = url.parse(...)
ResolveUrl(v) == IF v = "str" THEN "url" ELSE v

ResolveOptions(o) == [target |-> ResolveUrl(o.target), forward |-> ResolveUrl(o.forward)]

\* JavaScript truthiness of a resolved target/forward value
Truthy(v) == v = "url"

----------------------------------------------------------------------------
(* The request record: the arguments of one web()/ws() call and everything *)
(* that happened to that request so far.                                   *)
(*   call, opts     the per-call options as passed, and the effective     *)
(*                  options the passes get                                 *)
(*   req            the inbound request: its method and its Upgrade header *)
(*   invoked, rets  the passes called, in call order, and what each        *)
(*                  returned (TRUE = truthy)                               *)
(*   trace          the events emitted on the server for this request and  *)
(*                  the calls of the per-call error callback ("errorCb")   *)
(*                  and of upstreamReq.end() ("reqEnd"), in order          *)
(*   sock           the client-facing writer: the response (web) or the    *)
(*                  client socket (ws): "open", "ended", "destroyed"       *)
(*   up             the outbound request: "none", "pending", "response",   *)
(*                  "done", "upgraded", "failed"                           *)
(*   upSock         the upstream socket after an upgrade                   *)
(*   clEof, upEof   the peer's end of stream was read from that socket     *)
(*   threw          the exception the call or the callback threw           *)

\* req.method and req.headers.upgrade ("undef": the request has no such header)
Methods == {"GET", "POST"}
UpgradeVals == {"undef", "", "websocket", "WebSocket", "h2c"}
Reqs == [method : Methods, upgrade : UpgradeVals]

\* an ordinary request of a browser
NoReq == [method |-> "GET", upgrade |-> "undef"]

\* the handshake request of a WebSocket client
WsReq == [method |-> "GET", upgrade |-> "websocket"]

NoRequest ==
  [kind |-> "none", call |-> [target |-> "nokey", forward |-> "nokey"],
   opts |-> [target |-> "undef", forward |-> "undef"],
   cb |-> FALSE, req |-> NoReq, headersSent |-> FALSE,
   invoked |-> <<>>, rets |-> <<>>, trace |-> <<>>,
   sock |-> "open", up |-> "none", upSock |-> "none",
   clEof |-> FALSE, upEof |-> FALSE, threw |-> "no"]

NewRequest(type, percall, opts, cb, req, headersSent) ==
  [NoRequest EXCEPT !.kind = type, !.call = percall, !.opts = opts, !.cb = cb,
                    !.req = req, !.headersSent = headersSent]

Emitted(r, e) == [r EXCEPT !.trace = Append(@, e)]

\* socket.end() / res.end(): no effect on a writer already ended or destroyed
EndWriter(r) == IF r.sock = "open" THEN [r EXCEPT !.sock = "ended"] ELSE r

\* socket.destroy() / res.destroy()
DestroyWriter(r) == [r EXCEPT !.sock = "destroyed"]

----------------------------------------------------------------------------
(* The error event.  The constructor attaches onError first; the factory   *)
(* attaches the default responder when options.handleErrors is set.        *)

\* variant: the listener does not count itself
OnErrorThrowsAtZero == Len(errListeners) = 0

\* onError: if (this.listeners("error").length === 1) throw err
OnErrorThrows == Len(errListeners) = 1

\* the listener createProxyServer attaches; writer is what emit passed as
\* third argument: "response" (a ServerResponse), "socket" (a Duplex) or
\* "undefined"
Responder(r, writer) ==
  IF writer = "response"
  THEN IF ~r.headersSent
       THEN EndWriter([r EXCEPT !.headersSent = TRUE])   \* writeHead(502); end("Bad Gateway")
       ELSE DestroyWriter(r)
  ELSE IF writer = "socket" THEN DestroyWriter(r)
  ELSE r

\* server.emit("error", err, req, writer): the listeners run in the order
\* attached; onError is the first and its throw ends the emit
EmitError(r, writer) ==
  LET r1 == Emitted(r, "error")
  IN IF OnErrorThrows THEN [r1 EXCEPT !.threw = "err"]
     ELSE IF "responder" \in Range(errListeners) THEN Responder(r1, writer)
     ELSE r1

----------------------------------------------------------------------------
(* The WebSocket passes.  Each takes the request record and yields it      *)
(* after the pass ran; Returned records what the pass returned.            *)

Returned(r, truthy) == [r EXCEPT !.rets = Append(@, truthy)]

\* String.prototype.toLowerCase on the header values of the model
ToLowerCase(s) == IF s = "WebSocket" THEN "websocket" ELSE s

\* variant: the header is compared as it came
IsWebsocketExact(req) ==
  req.method = "GET" /\ req.upgrade = "websocket"

\* req.method === "GET" && req.headers.upgrade &&
\*   req.headers.upgrade.toLowerCase() === "websocket"
\* (an absent or empty header is falsy)
IsWebsocket(req) ==
  /\ req.method = "GET"
  /\ req.upgrade \notin {"undef", ""}
  /\ ToLowerCase(req.upgrade) = "websocket"

\* if (!isWebsocket(req)) { socket.destroy(); return true; }
CheckMethodAndHeader(r) ==
  IF ~IsWebsocket(r.req) THEN Returned(DestroyWriter(r), TRUE) ELSE Returned(r, FALSE)

\* xHeaders only rewrites the x-forwarded-* headers of req; it returns undefined
XHeaders(r) == Returned(r, FALSE)

\* variant: the callback does not replace the event
OnOutgoingErrorBoth(r) ==
  LET e == EmitError(IF r.cb THEN Emitted(r, "errorCb") ELSE r, "socket")
  IN IF e.threw # "no" THEN e ELSE EndWriter(e)

\* variant: the failure is reported and the client socket left as it is
OnOutgoingErrorNoEnd(r) ==
  IF r.cb THEN Emitted(r, "errorCb") ELSE EmitError(r, "socket")

\* function onOutgoingError(err): the per-call callback if there is one, else
\* the server's error event; then socket.end().  A throw of the emit leaves
\* the function before socket.end().
OnOutgoingError(r) ==
  IF r.cb THEN EndWriter(Emitted(r, "errorCb"))
  ELSE LET e == EmitError(r, "socket")
       IN IF e.threw # "no" THEN e ELSE EndWriter(e)

\* variant: the request is ended before it is announced
StreamRequestEndFirst(r) ==
  Emitted(Emitted([r EXCEPT !.up = "pending"], "reqEnd"), "proxyReqWs")

\* server.emit("proxyReqWs", ...) and the rest of the synchronous part of
\* stream, up to `return upstreamReq.end()`
StreamRequest(r) ==
  Emitted(Emitted([r EXCEPT !.up = "pending"], "proxyReqWs"), "reqEnd")

\* stream: options.target.protocol is read to choose http or https, which
\* throws a TypeError when options.target is undefined; otherwise the
\* outbound request is created, announced and ended, and end() returns the
\* request object, a truthy value
Stream(r) ==
  IF ~Truthy(r.opts.target) THEN [r EXCEPT !.threw = "TypeError"]
  ELSE Returned(StreamRequest(r), TRUE)

\* the passes of web-incoming.ts are not among the sources: they are taken
\* to return a falsy value and their I/O is left out
WebPass(r) == Returned(r, FALSE)

\* passes[i](req, res || socket, requestOptions, head, this, errorHandler)
InvokePass(p, r) ==
  LET r1 == [r EXCEPT !.invoked = Append(@, p)]
  IN IF ~p.builtin THEN Returned(r1, p.ret)
     ELSE IF r.kind = "web" THEN WebPass(r1)
     ELSE IF p.name = "checkMethodAndHeader" THEN CheckMethodAndHeader(r1)
     ELSE IF p.name = "xHeaders" THEN XHeaders(r1)
     ELSE Stream(r1)

\* variant: the loop without its break
HaltsOnThrowOnly(r) == r.threw # "no"

\* if (passRes) break;  (an exception leaves the loop as well)
Halts(r) == r.threw # "no" \/ r.rets[Len(r.rets)]

\* for (var i = 0; i < passes.length; i++) { ... }, from the 1-based index i
RECURSIVE RunPasses(_, _, _)
RunPasses(passes, i, r) ==
  IF i > Len(passes) THEN r
  ELSE LET r1 == InvokePass(passes[i], r)
       IN IF Halts(r1) THEN r1 ELSE RunPasses(passes, i + 1, r1)

\* variant: the server's options are tested instead of the merged ones
MissingTargetOfServer(o) ==
  ~Truthy(ResolveUrl(options.target)) /\ ~Truthy(ResolveUrl(options.forward))

\* if (!requestOptions.target && !requestOptions.forward)
MissingTarget(o) == ~Truthy(o.target) /\ ~Truthy(o.forward)

\* processRequest: merge and resolve the options, refuse a request without
\* target and forward with an error event (emit gets args.res, which ws()
\* does not have), else walk the pass list
Processed(type, percall, cb, req, headersSent) ==
  LET passes == IF type = "ws" THEN wsPasses ELSE webPasses
      requestOptions == ResolveOptions(MergeOptions(options, percall))
      r == NewRequest(type, percall, requestOptions, cb, req, headersSent)
  IN IF MissingTarget(requestOptions)
     THEN EmitError(r, IF type = "web" THEN "response" ELSE "undefined")
     ELSE RunPasses(passes, 1, r)

ProcessRequest(type, percall, cb, req, headersSent) ==
  /\ ~crashed
  /\ rq' = Processed(type, percall, cb, req, headersSent)
  /\ UNCHANGED <<webPasses, wsPasses, lastOp, options, errListeners, crashed, side>>

CallOptions == [target : CallVals, forward : CallVals]

\* web({req, res, options}): headersSent tells whether the caller already
\* wrote the response head
Web == \E percall \in CallOptions, headersSent \in BOOLEAN :
         ProcessRequest("web", percall, FALSE, NoReq, headersSent)

\* ws({req, socket, head, options, errorHandler})
Ws == \E percall \in CallOptions, cb \in BOOLEAN, req \in {WsReq, NoReq} :
        ProcessRequest("ws", percall, cb, req, FALSE)

----------------------------------------------------------------------------
(* The I/O callbacks stream attaches, one action per callback.  An         *)
(* exception that leaves a callback is uncaught.                           *)

Callback(r) ==
  /\ rq' = r
  /\ crashed' = (r.threw # "no")
  /\ UNCHANGED <<webPasses, wsPasses, lastOp, options, errListeners, side>>

\* variant: nothing ends the upstream socket
EndUpstreamNever(r) == r

\* proxySocket.end() through the pipe or the client's error listener
EndUpstream(r) == IF r.upSock = "open" THEN [r EXCEPT !.upSock = "ended"] ELSE r

\* upstreamReq.on("error", onOutgoingError): the outbound request fails
\* before the upstream answered or while its response is relayed
UpstreamReqOnError ==
  /\ ~crashed /\ rq.kind = "ws" /\ rq.up \in {"pending", "response"}
  /\ Callback(OnOutgoingError([rq EXCEPT !.up = "failed"]))

\* upstreamReq.on("response", ...): the upstream answered without upgrading;
\* the status line and headers are written and the body piped to the client
UpstreamReqOnResponse ==
  /\ ~crashed /\ rq.kind = "ws" /\ rq.up = "pending"
  /\ Callback([rq EXCEPT !.up = "response"])

\* upstreamRes.pipe(socket): the end of the upstream body ends the client socket
UpstreamResOnEnd ==
  /\ ~crashed /\ rq.kind = "ws" /\ rq.up = "response"
  /\ Callback(EndWriter([rq EXCEPT !.up = "done"]))

\* the upgrade handler's emits: server.emit("open", ...), then the
\* deprecated server.emit("proxySocket", ...)
UpgradeEmits(r) == Emitted(Emitted(r, "open"), "proxySocket")

\* upstreamReq.on("upgrade", ...): the listeners are attached, the 101 head
\* is written, the two sockets are piped into each other
UpstreamReqOnUpgrade ==
  /\ ~crashed /\ rq.kind = "ws" /\ rq.up = "pending"
  /\ Callback(UpgradeEmits([rq EXCEPT !.up = "upgraded", !.upSock = "open"]))

\* proxySocket.on("end", ...): the upstream sent its end of stream: close is
\* emitted, and the pipe into the client socket ends the client socket
CanUpstreamEnd(r) ==
  r.up = "upgraded" /\ r.upSock \in {"open", "ended"} /\ ~r.upEof

UpstreamSocketOnEnd ==
  /\ ~crashed /\ CanUpstreamEnd(rq)
  /\ Callback(EndWriter(Emitted([rq EXCEPT !.upEof = TRUE], "close")))

\* proxySocket.on("error", onOutgoingError): the runtime destroys a socket
\* that failed, so this comes once and no "end" follows it
CanUpstreamFail(r) ==
  /\ r.up = "upgraded"
  /\ r.upSock \in {"open", "ended"} /\ ~(r.upEof /\ r.upSock = "ended")

UpstreamSocketOnError ==
  /\ ~crashed /\ CanUpstreamFail(rq)
  /\ Callback(OnOutgoingError([rq EXCEPT !.upSock = "destroyed"]))

\* the pipe from the client socket into the upstream socket: the client's
\* end of stream ends the upstream socket
CanClientEnd(r) == r.up = "upgraded" /\ r.sock # "destroyed" /\ ~r.clEof

ClientSocketOnEnd ==
  /\ ~crashed /\ CanClientEnd(rq)
  /\ Callback(EndUpstream([rq EXCEPT !.clEof = TRUE]))

\* socket.on("error", ...): proxySocket.end(); the runtime destroys the
\* client socket that failed
CanClientFail(r) ==
  r.up = "upgraded" /\ r.sock # "destroyed" /\ ~(r.clEof /\ r.sock = "ended")

ClientSocketOnError ==
  /\ ~crashed /\ CanClientFail(rq)
  /\ Callback(EndUpstream(DestroyWriter(rq)))

\* the client socket closes or fails while the outbound request waits for
\* its answer: stream has attached no listener to the client socket yet
\* (socket.on("error", ...) is attached in the upgrade handler), so nothing
\* of the proxy runs
ClientGoneBeforeUpgrade ==
  /\ ~crashed /\ rq.kind = "ws" /\ rq.up = "pending" /\ rq.sock = "open"
  /\ Callback(DestroyWriter(rq))

----------------------------------------------------------------------------
(* Error listeners of the caller: server.on("error", f), server.off(...)   *)

UserListeners == Cardinality({k \in 1..Len(errListeners) : errListeners[k] = "user"})

AddErrorListener ==
  /\ ~crashed
  /\ UserListeners < MaxUserListeners
  /\ errListeners' = Append(errListeners, "user")
  /\ UNCHANGED <<webPasses, wsPasses, lastOp, options, rq, crashed, side>>

RemoveErrorListener ==
  /\ ~crashed
  /\ \E k \in 1..Len(errListeners) :
       /\ errListeners[k] = "user"
       /\ errListeners' = RemoveAt(errListeners, k)
  /\ UNCHANGED <<webPasses, wsPasses, lastOp, options, rq, crashed, side>>

----------------------------------------------------------------------------
(* The server after createProxyServer(options).                            *)

ServerOptions == [target : OptVals, forward : OptVals, handleErrors : BOOLEAN]

\* no helper call, no tunnel, no listener
NoCall == [name |-> "none", done |-> FALSE, args |-> <<>>, result |-> <<>>]
NoTunnel == [phase |-> "none"]
NoServer == [cur |-> 0]

\* new ProxyServer(options), then the responder if options.handleErrors
Init ==
  /\ tunnel = NoTunnel /\ srv = NoServer /\ fn = NoCall
  /\ options \in ServerOptions
  /\ webPasses = WebPassesInit
  /\ wsPasses = WsPassesInit
  /\ errListeners = IF options.handleErrors THEN <<"onError", "responder">>
                    ELSE <<"onError">>
  /\ lastOp = NoOp
  /\ rq = NoRequest
  /\ crashed = FALSE

BeforeCall == \E type \in Types, passName \in PassNames, callback \in Stages :
                Before(type, passName, callback)

AfterCall == \E type \in Types, passName \in PassNames, callback \in Stages :
               After(type, passName, callback)

\* a server without forward and without the default responder
InitSetup == Init /\ options.forward = "undef" /\ ~options.handleErrors

\* requests that bring no options of their own
NoCallOptions == [target |-> "nokey", forward |-> "nokey"]

WebPlain == ProcessRequest("web", NoCallOptions, FALSE, NoReq, FALSE)

WsPlain == \E req \in {WsReq, NoReq} :
             ProcessRequest("ws", NoCallOptions, FALSE, req, FALSE)

\* the pass registry and the dispatch of requests through it
Next == BeforeCall \/ AfterCall \/ WebPlain \/ WsPlain

Spec == InitSetup /\ [][Next]_vars

\* requests, the I/O of the WebSocket stream pass, and the error listeners
NextIO ==
  \/ Web
  \/ Ws
  \/ UpstreamReqOnError
  \/ UpstreamReqOnResponse
  \/ UpstreamResOnEnd
  \/ UpstreamReqOnUpgrade
  \/ UpstreamSocketOnEnd
  \/ UpstreamSocketOnError
  \/ ClientSocketOnEnd
  \/ ClientSocketOnError
  \/ AddErrorListener
  \/ RemoveErrorListener

SpecIO == Init /\ [][NextIO]_vars

\* one ws() call of any method and Upgrade header, without options of its own
WsOnce == /\ Setup
          /\ \E cb \in BOOLEAN, req \in Reqs :
               ProcessRequest("ws", NoCallOptions, cb, req, FALSE)

\* the course of one WebSocket request, the client's early departure included
NextWs ==
  \/ WsOnce
  \/ UpstreamReqOnError
  \/ UpstreamReqOnResponse
  \/ UpstreamResOnEnd
  \/ UpstreamReqOnUpgrade
  \/ UpstreamSocketOnEnd
  \/ UpstreamSocketOnError
  \/ ClientSocketOnEnd
  \/ ClientSocketOnError
  \/ ClientGoneBeforeUpgrade
  \/ AddErrorListener
  \/ RemoveErrorListener

SpecWs == Init /\ [][NextWs]_vars

\* the course of one WebSocket request whose client stays until the upgrade
NextSplice ==
  \/ WsOnce
  \/ UpstreamReqOnError
  \/ UpstreamReqOnResponse
  \/ UpstreamResOnEnd
  \/ UpstreamReqOnUpgrade
  \/ UpstreamSocketOnEnd
  \/ UpstreamSocketOnError
  \/ ClientSocketOnEnd
  \/ ClientSocketOnError
  \/ AddErrorListener
  \/ RemoveErrorListener

\* fairness: the event loop runs the "end" handlers of a spliced pair, that
\* is, each peer's end of stream is read as long as it can still come; errors
\* may or may not happen
SpecSplice ==
  /\ Init /\ [][NextSplice]_vars
  /\ WF_vars(UpstreamSocketOnEnd)
  /\ WF_vars(ClientSocketOnEnd)

----------------------------------------------------------------------------
(* Helper functions are checked one call at a time on a server at rest:    *)
(* the arguments are drawn at the start, an action applies the function.   *)

dispatch == <<webPasses, wsPasses, lastOp, options, errListeners, rq, crashed>>

AtRest ==
  /\ options = [target |-> "url", forward |-> "undef", handleErrors |-> FALSE]
  /\ webPasses = WebPassesInit /\ wsPasses = WsPassesInit
  /\ errListeners = <<"onError">>
  /\ lastOp = NoOp /\ rq = NoRequest /\ crashed = FALSE

Args(name, a) == [name |-> name, done |-> FALSE, args |-> a, result |-> <<>>]

\* the call returns: fn holds the result
Apply(name, result) ==
  /\ fn.name = name /\ ~fn.done
  /\ fn' = [fn EXCEPT !.done = TRUE, !.result = result]
  /\ UNCHANGED <<dispatch, tunnel, srv>>

\* the sequences over S of length at most n
SeqsUpTo(S, n) == UNION {[1..k -> S] : k \in 0..n}

RECURSIVE Concat(_)
Concat(ss) == IF ss = <<>> THEN <<>> ELSE Head(ss) \o Concat(Tail(ss))

----------------------------------------------------------------------------
(* createHttpHeader.  A string is the sequence of its pieces; a headers     *)
(* object is the sequence of its [key, value] entries in key order, a      *)
(* value being a string (arr FALSE, v holds it) or an array of strings     *)
(* (arr TRUE, v holds its elements).                                       *)

\* how many headers the upstream's answer has, how long an array value is
MaxHeaders == 2
MaxArray == 2

CRLF == "\r\n"
Line101 == "HTTP/1.1 101 Switching Protocols"

HeaderNames == {"upgrade", "sec-websocket-accept", "set-cookie"}
HeaderStrings == {"a", "b"}
HeaderValues ==
  [arr : {FALSE}, v : {<<x>> : x \in HeaderStrings}]
    \cup [arr : {TRUE}, v : SeqsUpTo(HeaderStrings, MaxArray)]

\* upstreamRes.headers: no key twice
HeaderObjects ==
  {h \in SeqsUpTo([key : HeaderNames, value : HeaderValues], MaxHeaders) :
     \A i, j \in 1..Len(h) : i # j => h[i].key # h[j].key}

\* key + ": " + value
HeaderLine(key, value) == <<key, ": ", value>>

\* variant: an array value gives the line of its first element only
HeaderLinesFirstOnly(header, entry) ==
  IF ~entry.value.arr THEN Append(header, HeaderLine(entry.key, entry.value.v[1]))
  ELSE IF entry.value.v = <<>> THEN header
  ELSE Append(header, HeaderLine(entry.key, entry.value.v[1]))

\* the reducer: one line for a string value, one line per element for an array
RECURSIVE PushEach(_, _, _, _)
PushEach(header, key, value, i) ==
  IF i > Len(value) THEN header
  ELSE PushEach(Append(header, HeaderLine(key, value[i])), key, value, i + 1)

HeaderLines(header, entry) ==
  IF ~entry.value.arr THEN Append(header, HeaderLine(entry.key, entry.value.v[1]))
  ELSE PushEach(header, entry.key, entry.value.v, 1)

\* Object.keys(headers).reduce(reducer, [line])
RECURSIVE Reduce(_, _)
Reduce(header, entries) ==
  IF entries = <<>> THEN header
  ELSE Reduce(HeaderLines(header, Head(entries)), Tail(entries))

\* Array.prototype.join
RECURSIVE Join(_, _)
Join(strs, sep) ==
  IF strs = <<>> THEN <<>>
  ELSE IF Len(strs) = 1 THEN strs[1]
  ELSE strs[1] \o sep \o Join(Tail(strs), sep)

\* createHttpHeader(line, headers)
CreateHttpHeader(line, headers) ==
  Join(Reduce(<<<<line>>>>, headers), <<CRLF>>) \o <<CRLF, CRLF>>

\* socket.write(createHttpHeader("HTTP/1.1 101 Switching Protocols", upstreamRes.headers))
WriteUpgradeHead ==
  Apply("createHttpHeader", CreateHttpHeader(fn.args.line, fn.args.headers))

InitHeader ==
  /\ AtRest /\ tunnel = NoTunnel /\ srv = NoServer
  /\ \E h \in HeaderObjects :
       fn = Args("createHttpHeader", [line |-> Line101, headers |-> h])

SpecHeader == InitHeader /\ [][WriteUpgradeHead]_vars

----------------------------------------------------------------------------
(* The bytes of one tunnel.  Every byte carries a label of its own, so the *)
(* order of arrival can be read off the deliveries.                        *)
(*   head, proxyHead  what came with the client's request / with the       *)
(*                    upstream's 101 answer                                 *)
(*   clBuf, upBuf     the read buffers of the client and upstream sockets  *)
(*   toUp, toCl       the bytes written to the upstream / client socket    *)
(*   clSent, upSent   the bytes each peer sent after its head, in order    *)

\* how many bytes each peer sends after its head
MaxBytes == 2

ClientHeads == {<<>>, <<"h1">>, <<"h1", "h2">>}
UpstreamHeads == {<<>>, <<"p1">>}
ClientBytes == <<"c1", "c2", "c3", "c4">>
UpstreamBytes == <<"u1", "u2", "u3", "u4">>

\* the headers of the upstream's 101 answer
TunnelHeaders == << [key |-> "upgrade", value |-> [arr |-> FALSE, v |-> <<"websocket">>]] >>

\* the server's upgrade event delivered the socket and the head; ws() is
\* not called yet
TunnelStart ==
  [phase |-> "accepted", head |-> <<>>, proxyHead |-> <<>>,
   clBuf |-> <<>>, upBuf |-> <<>>, toUp |-> <<>>, toCl |-> <<>>,
   clSent |-> <<>>, upSent |-> <<>>]

\* variant: the chunk is put behind what the buffer holds
UnshiftBehind(buf, chunk) == buf \o chunk

\* readable.unshift(chunk): the chunk goes in front of what the buffer holds
Unshift(buf, chunk) == chunk \o buf

TunnelStep(t) == tunnel' = t /\ UNCHANGED <<dispatch, srv, fn>>

\* the client sends its next byte: it waits in the socket's read buffer
ClientSend ==
  /\ tunnel.phase # "none" /\ Len(tunnel.clSent) < MaxBytes
  /\ LET b == ClientBytes[Len(tunnel.clSent) + 1]
     IN TunnelStep([tunnel EXCEPT !.clSent = Append(@, b), !.clBuf = Append(@, b)])

\* stream, its synchronous part: if (head && head.length) socket.unshift(head)
TunnelStream ==
  /\ tunnel.phase = "accepted"
  /\ \E head \in ClientHeads :
       TunnelStep([tunnel EXCEPT
         !.phase = "requested", !.head = head,
         !.clBuf = IF Len(head) # 0 THEN Unshift(@, head) ELSE @])

\* the upgrade handler: proxySocket.unshift(proxyHead), socket.write(101
\* head), proxySocket.pipe(socket).pipe(proxySocket)
TunnelUpgrade ==
  /\ tunnel.phase = "requested"
  /\ \E proxyHead \in UpstreamHeads :
       TunnelStep([tunnel EXCEPT
         !.phase = "spliced", !.proxyHead = proxyHead,
         !.upBuf = IF Len(proxyHead) # 0 THEN Unshift(@, proxyHead) ELSE @,
         !.toCl = @ \o CreateHttpHeader(Line101, TunnelHeaders)])

\* the upstream sends its next byte after the handshake
UpstreamSend ==
  /\ tunnel.phase = "spliced" /\ Len(tunnel.upSent) < MaxBytes
  /\ LET b == UpstreamBytes[Len(tunnel.upSent) + 1]
     IN TunnelStep([tunnel EXCEPT !.upSent = Append(@, b), !.upBuf = Append(@, b)])

\* socket.pipe(proxySocket): the front of the client's read buffer is
\* written to the upstream socket
PipeToUpstream ==
  /\ tunnel.phase = "spliced" /\ tunnel.clBuf # <<>>
  /\ TunnelStep([tunnel EXCEPT !.toUp = Append(@, Head(tunnel.clBuf)),
                               !.clBuf = Tail(@)])

\* proxySocket.pipe(socket)
PipeToClient ==
  /\ tunnel.phase = "spliced" /\ tunnel.upBuf # <<>>
  /\ TunnelStep([tunnel EXCEPT !.toCl = Append(@, Head(tunnel.upBuf)),
                               !.upBuf = Tail(@)])

NextTunnel ==
  \/ ClientSend
  \/ TunnelStream
  \/ TunnelUpgrade
  \/ UpstreamSend
  \/ PipeToUpstream
  \/ PipeToClient

InitTunnel == AtRest /\ srv = NoServer /\ fn = NoCall /\ tunnel = TunnelStart

SpecTunnel == InitTunnel /\ [][NextTunnel]_vars

----------------------------------------------------------------------------
(* listen and close.                                                       *)
(*   cur       this._server: the index in servers of the listener the      *)
(*             proxy refers to, 0 for null                                 *)
(*   servers   the listeners listen() created: state "listening",          *)
(*             "closing" (close() was called on it, its close event is     *)
(*             to come) or "closed", and waiting, the close() calls whose  *)
(*             done is registered on its close event, with the argument    *)
(*             each will get                                               *)
(*   calls     the close(callback) calls made: how often the callback ran  *)
(*             and with what                                               *)

\* how many listen() and close() calls are made
MaxListens == 3
MaxCloses == 3

NoListener == [cur |-> 0, servers |-> <<>>, calls |-> <<>>]

ServerStep(v) == srv' = v /\ UNCHANGED <<dispatch, tunnel, fn>>

\* listen(port, hostname): this._server = createServer(...); this._server.listen(...)
Listen ==
  /\ Len(srv.servers) < MaxListens
  /\ ServerStep([srv EXCEPT
       !.servers = Append(@, [state |-> "listening", waiting |-> <<>>]),
       !.cur = Len(srv.servers) + 1])

\* net.Server close(cb) on listener i for the call k: the callback waits for
\* the close event; it will get an error if the listener was not listening
\* any more
ServerClose(servers, i, k) ==
  [servers EXCEPT
     ![i] = [state |-> IF @.state = "listening" THEN "closing" ELSE @.state,
             waiting |-> Append(@.waiting,
                                [call |-> k,
                                 arg |-> IF @.state = "listening" THEN "none"
                                         ELSE "ERR_SERVER_NOT_RUNNING"])]]

\* close(callback): if (this._server) this._server.close(done)
Close ==
  /\ Len(srv.calls) < MaxCloses
  /\ LET k == Len(srv.calls) + 1
         called == Append(srv.calls, [ran |-> 0, arg |-> "none"])
     IN IF srv.cur # 0
        THEN ServerStep([srv EXCEPT !.calls = called,
                                    !.servers = ServerClose(@, srv.cur, k)])
        ELSE ServerStep([srv EXCEPT !.calls = called])

\* function done(): self._server = null; callback.apply(null, arguments),
\* for each call registered on the listener, in the order registered
RECURSIVE RunDone(_, _)
RunDone(v, waiting) ==
  IF waiting = <<>> THEN v
  ELSE LET w == Head(waiting)
       IN RunDone([v EXCEPT !.cur = 0,
                            !.calls[w.call] = [ran |-> @.ran + 1, arg |-> w.arg]],
                  Tail(waiting))

\* the close event of a listener that was closing: its connections ended
ServerOnClose ==
  \E i \in 1..Len(srv.servers) :
    /\ srv.servers[i].state = "closing"
    /\ ServerStep(RunDone([srv EXCEPT !.servers[i] = [state |-> "closed", waiting |-> <<>>]],
                          srv.servers[i].waiting))

NextListen == Listen \/ Close \/ ServerOnClose

InitListen == AtRest /\ tunnel = NoTunnel /\ fn = NoCall /\ srv = NoListener

SpecListen == InitListen /\ [][NextListen]_vars

----------------------------------------------------------------------------
(* setupOutgoing (common.ts).  A string is the sequence of its pieces: "/", *)
(* "?", ":" and words; "" is the empty sequence.  A port is a number, 0    *)
(* for a port that is not given; "undefined" stands for a key, a         *)
(* certificate or an agent that is not given.  Of the descriptor, the      *)
(* fields port, host, key, cert, headers.host, agent and path are          *)
(* modelled.                                                               *)

Protocols == {"http:", "https:", "ws:", "wss:"}
Ports == {0, 80, 443, 8080}

\* String(port)
PortStr(p) == IF p = 80 THEN "80" ELSE IF p = 443 THEN "443"
              ELSE IF p = 8080 THEN "8080" ELSE "0"

\* target.host: url.parse leaves the port of the URL in it
TargetHosts == {<<"up.example">>, <<"up.example", ":", "8080">>}
TargetPaths == {<<>>, <<"/", "api">>, <<"/", "api", "/">>}
\* a target parsed from a URL string: it has no key and no cert
Targets ==
  [protocol : Protocols, host : TargetHosts, port : Ports, path : TargetPaths,
   key : {"undefined"}, cert : {"undefined"}]

\* req.url: origin form, with a query, absolute form, and the root
ReqUrls == { <<"/", "v1", "/", "users">>,
             <<"/", "v1", "/", "users", "?", "a=1">>,
             <<"http:", "/", "/", "in.example", "/", "v1", "/", "users">>,
             <<"/">> }

\* options.headers: has tells whether it is set and has the key host
OverlayHeaders == { [has |-> FALSE, host |-> <<>>], [has |-> TRUE, host |-> <<"set.example">>] }

\* options.ssl and options.requestOptions, unset
NoSsl == [set |-> FALSE, key |-> "undefined", cert |-> "undefined"]
NoRequestOptions == [set |-> FALSE, key |-> "undefined"]

\* options that vary what the Host header and the path depend on
OutgoingOptions ==
  [target : Targets, changeOrigin : BOOLEAN, headers : OverlayHeaders,
   prependPath : {"undefined", "true", "false"}, toProxy : BOOLEAN, ignorePath : BOOLEAN,
   httpAgent : {"undefined"}, httpsAgent : {"undefined"},
   ssl : {NoSsl}, requestOptions : {NoRequestOptions}]

InboundRequests == [url : ReqUrls, headers : {[host |-> <<"in.example">>]}]

\* requestOptions = { ...options.ssl } without ssl options
NoOutgoing ==
  [port |-> 0, host |-> <<>>, key |-> "undefined", cert |-> "undefined",
   headers |-> [host |-> <<>>], agent |-> "undefined", path |-> <<>>]

\* isSSL = /^https|wss/ on the protocols of the model
IsSSL(protocol) == protocol \in {"https:", "wss:"}

\* variant: every port but 80 is required
RequiresPortNot80(port, protocol) == port # 0 /\ port # 80

\* requiresPort(port, protocol) of the requires-port package: the port is
\* not the default one of the protocol
RequiresPort(port, protocol) ==
  /\ port # 0
  /\ IF protocol \in {"http:", "ws:"} THEN port # 80
     ELSE IF protocol \in {"https:", "wss:"} THEN port # 443
     ELSE TRUE

\* hasPort(host): !!~host.indexOf(":")
HasPort(host) == \E i \in 1..Len(host) : host[i] = ":"

\* String.prototype.split(sep) for a one-piece separator
RECURSIVE Split(_, _)
Split(str, sep) ==
  IF \A i \in 1..Len(str) : str[i] # sep THEN <<str>>
  ELSE LET i == CHOOSE j \in 1..Len(str) :
                  str[j] = sep /\ \A k \in 1..(j - 1) : str[k] # sep
       IN <<SubSeq(str, 1, i - 1)>> \o Split(SubSeq(str, i + 1, Len(str)), sep)

\* variant: the slashes are left as they are
CollapseNothing(str) == str

\* .replace(/\/+/g, "/")
RECURSIVE CollapseSlashes(_)
CollapseSlashes(str) ==
  IF Len(str) < 2 THEN str
  ELSE IF str[1] = "/" /\ str[2] = "/" THEN CollapseSlashes(Tail(str))
  ELSE <<str[1]>> \o CollapseSlashes(Tail(str))

\* .replace(word + "/", word + "//"): the first occurrence only
RECURSIVE DoubleSlashAfter(_, _)
DoubleSlashAfter(str, word) ==
  IF Len(str) < 2 THEN str
  ELSE IF str[1] = word /\ str[2] = "/" THEN <<word, "/", "/">> \o SubSeq(str, 3, Len(str))
  ELSE <<str[1]>> \o DoubleSlashAfter(Tail(str), word)

\* .filter(Boolean) on strings
RECURSIVE NonEmpty(_)
NonEmpty(strs) ==
  IF strs = <<>> THEN <<>>
  ELSE IF Head(strs) = <<>> THEN NonEmpty(Tail(strs))
  ELSE <<Head(strs)>> \o NonEmpty(Tail(strs))

\* urlJoin(...arg)
UrlJoin(arg) ==
  LET lastIndex == Len(arg)
      lastSegs == Split(arg[lastIndex], "?")
      args == [arg EXCEPT ![lastIndex] = Head(lastSegs)]
      joined == DoubleSlashAfter(
                  DoubleSlashAfter(CollapseSlashes(Join(NonEmpty(args), <<"/">>)), "http:"),
                  "https:")
  IN Join(<<joined>> \o Tail(lastSegs), <<"?">>)

\* url.parse(str).path: what follows the host of an absolute URL, "/" if
\* nothing does; the whole string for a path
UrlParsePath(str) ==
  IF Len(str) >= 4 /\ SubSeq(str, 1, 3) = <<"http:", "/", "/">>
  THEN IF Len(str) = 4 THEN <<"/">> ELSE SubSeq(str, 5, Len(str))
  ELSE str

\* variant: the path of the target is always put in front
TargetPathAlways(opts, target) == target.path

\* target && options.prependPath !== false ? target.path || "" : ""
TargetPath(opts, target) ==
  IF opts.prependPath # "false" THEN target.path ELSE <<>>

\* !options.toProxy ? url.parse(req.url).path || "" : req.url, and
\* outgoingPath = !options.ignorePath ? outgoingPath : ""
OutgoingPath(opts, req) ==
  IF opts.ignorePath THEN <<>>
  ELSE IF ~opts.toProxy THEN UrlParsePath(req.url) ELSE req.url

\* options[protocol === "http:" ? "httpAgent" : "httpsAgent"] || false
Agent(opts, protocol) ==
  LET a == IF protocol = "http:" THEN opts.httpAgent ELSE opts.httpsAgent
  IN IF a = "undefined" THEN "false" ELSE a

\* setupOutgoing(outgoing, options, req, forward); forward is "" where the
\* caller passes none.  The fields of the forEach (host, key, cert among
\* them) are assigned from the target whether or not it has them.
SetupOutgoing(outgoing, opts, req, forward) ==
  LET target == IF forward = "" THEN opts.target ELSE opts[forward]
      port == IF target.port # 0 THEN target.port
              ELSE IF IsSSL(target.protocol) THEN 443 ELSE 80
      copied == IF opts.headers.has THEN opts.headers.host ELSE req.headers.host
      hostHeader == IF ~opts.changeOrigin THEN copied
                    ELSE IF RequiresPort(port, target.protocol) /\ ~HasPort(target.host)
                         THEN target.host \o <<":", PortStr(port)>>
                         ELSE target.host
  IN [outgoing EXCEPT
        !.port = port,
        !.host = target.host,
        !.key = target.key,
        !.cert = target.cert,
        !.headers = [host |-> hostHeader],
        !.agent = Agent(opts, target.protocol),
        !.path = UrlJoin(<<TargetPath(opts, target), OutgoingPath(opts, req)>>)]

\* stream: setupOutgoing(requestOptions, options, req)
SetupOutgoingCall ==
  Apply("setupOutgoing", SetupOutgoing(NoOutgoing, fn.args.options, fn.args.req, ""))

InitOutgoing ==
  /\ AtRest /\ tunnel = NoTunnel /\ srv = NoServer
  /\ \E o \in OutgoingOptions, r \in InboundRequests :
       fn = Args("setupOutgoing", [options |-> o, req |-> r])

SpecOutgoing == InitOutgoing /\ [][SetupOutgoingCall]_vars

----------------------------------------------------------------------------
(* The options record across requests, in the two variants of              *)
(* processRequest that http-proxy/index.ts holds.                          *)

\* "current": const requestOptions = { ...this.options, ...options }
\* "earlier": var requestOptions = this.options, copied only when the call
\*            brings an options argument
Variants == {"current", "earlier"}

\* requestOptions[e] = parse_url(requestOptions[e]) on the record that
\* requestOptions refers to, which is this.options itself in the earlier
\* variant when no options argument is given
ProcessRequestOf(variant, type, given, percall, cb, req, headersSent) ==
  LET own == IF given THEN percall ELSE NoCallOptions
      requestOptions == ResolveOptions(MergeOptions(options, own))
  IN /\ ~crashed
     /\ rq' = Processed(type, own, cb, req, headersSent)
     /\ options' = IF variant = "earlier" /\ ~given
                   THEN [options EXCEPT !.target = requestOptions.target,
                                        !.forward = requestOptions.forward]
                   ELSE options
     /\ UNCHANGED <<webPasses, wsPasses, lastOp, errListeners, crashed, side>>

DispatchWeb ==
  \E given \in BOOLEAN, percall \in CallOptions, headersSent \in BOOLEAN :
    ProcessRequestOf(fn.args.variant, "web", given, percall, FALSE, NoReq, headersSent)

DispatchWs ==
  \E given \in BOOLEAN, percall \in CallOptions, cb \in BOOLEAN, req \in {WsReq, NoReq} :
    ProcessRequestOf(fn.args.variant, "ws", given, percall, cb, req, FALSE)

\* a server as constructed, with the variant and the options it was given
InitDispatch ==
  /\ tunnel = NoTunnel /\ srv = NoServer
  /\ options \in ServerOptions
  /\ webPasses = WebPassesInit
  /\ wsPasses = WsPassesInit
  /\ errListeners = IF options.handleErrors THEN <<"onError", "responder">>
                    ELSE <<"onError">>
  /\ lastOp = NoOp
  /\ rq = NoRequest
  /\ crashed = FALSE
  /\ \E variant \in Variants :
       fn = Args("processRequest", [variant |-> variant, options |-> options])

SpecDispatch == InitDispatch /\ [][DispatchWeb \/ DispatchWs]_vars

----------------------------------------------------------------------------
(* urlJoin on two arguments: with an empty second, an empty first, both.   *)

\* how many pieces an argument has
MaxPieces == 2

\* strings of slashes, question marks, schemes and other text
JoinArgs == SeqsUpTo({"/", "?", "http:", "https:", "x"}, MaxPieces)

UrlJoinCalls ==
  Apply("urlJoin", [right |-> UrlJoin(<<fn.args.a, <<>>>>),
                    left |-> UrlJoin(<<<<>>, fn.args.b>>),
                    both |-> UrlJoin(<<fn.args.a, fn.args.b>>)])

InitJoin ==
  /\ AtRest /\ tunnel = NoTunnel /\ srv = NoServer
  /\ \E a \in JoinArgs, b \in JoinArgs : fn = Args("urlJoin", [a |-> a, b |-> b])

SpecJoin == InitJoin /\ [][UrlJoinCalls]_vars

----------------------------------------------------------------------------
(* The descriptor stream hands to http(s).request.                         *)

\* a target given as an object may carry a client key and certificate
TlsTargets ==
  [protocol : Protocols, host : {<<"up.example">>}, port : {0, 8080},
   path : {<<"/", "api">>},
   key : {"undefined", "target.key"}, cert : {"undefined", "target.cert"}]

SslOptions == {NoSsl, [set |-> TRUE, key |-> "ssl.key", cert |-> "ssl.cert"]}
RequestOptionsGiven ==
  {NoRequestOptions, [set |-> TRUE, key |-> "undefined"],
   [set |-> TRUE, key |-> "requestOptions.key"]}

\* options that vary what the agent and the TLS fields depend on
DescriptorOptions ==
  [target : TlsTargets, changeOrigin : {FALSE}, headers : {[has |-> FALSE, host |-> <<>>]},
   prependPath : {"undefined"}, toProxy : {FALSE}, ignorePath : {FALSE},
   httpAgent : {"undefined", "httpAgent"}, httpsAgent : {"undefined", "httpsAgent"},
   ssl : SslOptions, requestOptions : RequestOptionsGiven]

\* the two copies of the pass among the sources: passes/ws-incoming.ts
\* spreads options.ssl alone, unnamed/part_000 options.requestOptions too
Builds == {"ws-incoming.ts", "part_000"}

\* { ...options.ssl, ...options.requestOptions }: a key of requestOptions
\* replaces the one of ssl
RequestOptions(opts, build) ==
  LET ssl == [NoOutgoing EXCEPT !.key = opts.ssl.key, !.cert = opts.ssl.cert]
  IN IF build = "part_000" /\ opts.requestOptions.set
          /\ opts.requestOptions.key # "undefined"
     THEN [ssl EXCEPT !.key = opts.requestOptions.key]
     ELSE ssl

\* stream: (...).request(setupOutgoing(requestOptions, options, req))
StreamDescriptor ==
  Apply("request",
        SetupOutgoing(RequestOptions(fn.args.options, fn.args.build),
                      fn.args.options, fn.args.req, ""))

InitDescriptor ==
  /\ AtRest /\ tunnel = NoTunnel /\ srv = NoServer
  /\ \E o \in DescriptorOptions, build \in Builds :
       fn = Args("request",
                 [options |-> o, build |-> build,
                  req |-> [url |-> <<"/">>, headers |-> [host |-> <<"in.example">>]]])

SpecDescriptor == InitDescriptor /\ [][StreamDescriptor]_vars

----------------------------------------------------------------------------
(* xHeaders on the headers of one inbound request, run after run.  A       *)
(* header is [set, v]: whether the key is there, and its value.            *)

\* how often the pass runs on the same request
MaxRuns == 2

\* a header that is absent, empty, or set by an earlier proxy
ForwardedBefore == { [set |-> FALSE, v |-> <<>>], [set |-> TRUE, v |-> <<>>],
                     [set |-> TRUE, v |-> <<"earlier">>] }

\* req.headers.host: absent, without a port, with one
InboundHosts == { [set |-> FALSE, v |-> <<>>], [set |-> TRUE, v |-> <<"in.example">>],
                  [set |-> TRUE, v |-> <<"in.example", ":", "8443">>] }

XfwdRequests ==
  [remoteAddress : {"10.0.0.7"}, encrypted : BOOLEAN, host : InboundHosts,
   for : ForwardedBefore, port : ForwardedBefore, proto : ForwardedBefore]

\* Boolean(req.connection?.encrypted || req.connection?.pair)
HasEncryptedConnection(req) == req.encrypted

\* req.headers.host.match(/:(\d+)/): the digits after the first colon that
\* digits follow; the hosts of the model have digits after every colon
GetPort(req) ==
  LET h == req.host.v
  IN IF req.host.set /\ \E i \in 1..(Len(h) - 1) : h[i] = ":"
     THEN h[(CHOOSE i \in 1..(Len(h) - 1) :
                h[i] = ":" /\ \A j \in 1..(i - 1) : h[j] # ":") + 1]
     ELSE IF HasEncryptedConnection(req) THEN "443" ELSE "80"

\* variant: the comma is written whether or not there is a value before it
XAppendAlwaysComma(header, value) ==
  [set |-> TRUE, v |-> header.v \o <<",">> \o <<value>>]

\* (req.headers[k] || "") + (req.headers[k] ? "," : "") + values[header]
XAppend(header, value) ==
  [set |-> TRUE,
   v |-> header.v \o (IF header.v # <<>> THEN <<",">> ELSE <<>>) \o <<value>>]

\* the body of xHeaders: req after the pass ran with these options
XForwarded(req, xfwd) ==
  IF ~xfwd THEN req
  ELSE [req EXCEPT
          !.for = XAppend(@, req.remoteAddress),
          !.port = XAppend(@, GetPort(req)),
          !.proto = XAppend(@, IF HasEncryptedConnection(req) THEN "wss" ELSE "ws")]

\* one more run of the pass on the same request
XHeadersRun ==
  /\ fn.name = "xHeaders" /\ fn.runs < MaxRuns
  /\ fn' = [fn EXCEPT !.runs = @ + 1, !.result = XForwarded(@, fn.args.xfwd)]
  /\ UNCHANGED <<dispatch, tunnel, srv>>

InitXfwd ==
  /\ AtRest /\ tunnel = NoTunnel /\ srv = NoServer
  /\ \E req \in XfwdRequests, xfwd \in BOOLEAN :
       fn = [name |-> "xHeaders", runs |-> 0,
             args |-> [req |-> req, xfwd |-> xfwd], result |-> req]

SpecXfwd == InitXfwd /\ [][XHeadersRun]_vars

----------------------------------------------------------------------------
(* Properties of the pipeline executor and of the pass registry (Spec).    *)

ListOf(type) == IF type = "ws" THEN wsPasses ELSE webPasses

\* a step of before/after that inserted a stage
Inserted == <<webPasses, wsPasses>>' # <<webPasses, wsPasses>>

\* the list the last call chose, before and after the step
OldList == IF lastOp'.type = "ws" THEN wsPasses ELSE webPasses
NewList == IF lastOp'.type = "ws" THEN wsPasses' ELSE webPasses'
OtherListKept == IF lastOp'.type = "ws" THEN webPasses' = webPasses
                 ELSE wsPasses' = wsPasses

\* r walked the list `passes` in order and stopped at the first truthy return
WalkedInOrder(r, passes) ==
  LET n == Len(r.invoked)
  IN /\ n >= 1 /\ n <= Len(passes)
     /\ r.invoked = SubSeq(passes, 1, n)
     /\ \A k \in 1..(n - 1) : ~r.rets[k]
     /\ n < Len(passes) => (r.threw # "no" \/ (Len(r.rets) = n /\ r.rets[n]))

\* C1: in one pipeline invocation (web or ws) the passes of the selected
\* list are invoked in list order, and once a pass returned a truthy value no
\* later pass of the list is invoked.
C1_PassesInOrderUntilTruthy ==
  [][(rq' # rq /\ ~MissingTarget(rq'.opts))
       => WalkedInOrder(rq', ListOf(rq'.kind))]_vars

\* a ws request that a stage of the caller halted before the end of the list
C1_Witness ==
  /\ rq.kind = "ws" /\ rq.rets # <<>>
  /\ Len(rq.invoked) < Len(wsPasses)
  /\ ~rq.invoked[Len(rq.invoked)].builtin
  /\ rq.rets[Len(rq.rets)]

\* C2: after a successful before(kind, anchorName, s), s sits immediately
\* before a pass named anchorName in list kind, after every pass that preceded
\* that anchor, and the passes present before keep their relative order (the
\* list without s is the old list); the other list is untouched.
C2_BeforeInsertsBeforeAnchor ==
  [][(Inserted /\ lastOp'.op = "before")
       => /\ lastOp'.result = "ok"
          /\ OtherListKept
          /\ \E k \in 1..(Len(NewList) - 1) :
               /\ NewList[k] = lastOp'.callback
               /\ NewList[k + 1].name = lastOp'.passName
               /\ RemoveAt(NewList, k) = OldList]_vars

\* before("ws", "xHeaders", s) succeeded on a list that already held a stage
C2_Witness ==
  /\ lastOp.op = "before" /\ lastOp.result = "ok" /\ lastOp.type = "ws"
  /\ Len(wsPasses) = Len(WsPassesInit) + 2
  /\ \E k \in 1..(Len(wsPasses) - 1) :
       wsPasses[k] = lastOp.callback /\ wsPasses[k + 1].name = lastOp.passName

\* C3: after a successful after(kind, anchorName, s), s sits immediately
\* after the pass named anchorName in list kind, at position indexOf(anchor)+1.
C3_AfterInsertsAfterAnchor ==
  [][(Inserted /\ lastOp'.op = "after")
       => \E k \in 2..Len(NewList) :
            /\ NewList[k] = lastOp'.callback
            /\ NewList[k - 1].name = lastOp'.passName
            /\ RemoveAt(NewList, k) = OldList]_vars

\* C4: before and after throw when kind is neither "web" nor "ws"
\* (InvalidKind) and when no pass of the selected list is named anchorName
\* (NoSuchPass), and only then; a call that throws leaves both lists as
\* they were.
C4_ThrowsAndKeepsLists ==
  [][(rq' = rq)
       => /\ lastOp'.result = "InvalidKind" <=> lastOp'.type \notin {"web", "ws"}
          /\ lastOp'.result = "NoSuchPass" <=>
               (lastOp'.type \in {"web", "ws"} /\ lastOp'.passName \notin Names(OldList))
          /\ lastOp'.result # "ok" => ~Inserted]_vars

\* a call with an unknown anchor on a list that an earlier call extended
C4_Witness ==
  /\ lastOp.result = "NoSuchPass" /\ lastOp.type = "ws"
  /\ Len(wsPasses) > Len(WsPassesInit)

\* C5 as claimed: after any sequence of before/after operations the names
\* of the passes within each list are pairwise distinct.
C5_NamesAlwaysDistinct == NamesDistinct(webPasses) /\ NamesDistinct(wsPasses)

BuiltinNamesDistinct(passes) ==
  \A i, j \in 1..Len(passes) :
    (i # j /\ passes[i].builtin /\ passes[j].builtin) => passes[i].name # passes[j].name

\* C5 as amended: the names of the built-in passes of each list are pairwise
\* distinct, and a successful before/after leaves the names of the chosen
\* list pairwise distinct exactly when they were distinct before the call
\* and the name of the inserted stage was not in the list.
C5_DistinctUnlessDuplicateInserted ==
  /\ [](BuiltinNamesDistinct(webPasses) /\ BuiltinNamesDistinct(wsPasses))
  /\ [][Inserted
          => (NamesDistinct(NewList) <=>
                (NamesDistinct(OldList) /\ lastOp'.callback.name \notin Names(OldList)))]_vars

\* a stage named like a built-in pass was accepted
C5_Witness ==
  /\ lastOp.result = "ok" /\ lastOp.callback.name = "stream"
  /\ ~NamesDistinct(ListOf(lastOp.type))

\* C6: after construction and after any sequence of successful before/after
\* operations the last pass of each list is the pass named stream (the
\* built-in one).
C6_StreamIsLast ==
  /\ webPasses[Len(webPasses)] = Builtin("stream")
  /\ wsPasses[Len(wsPasses)] = Builtin("stream")

\* after(kind, "stream", s) succeeded
C6_Witness ==
  /\ lastOp.op = "after" /\ lastOp.result = "ok" /\ lastOp.passName = "stream"
  /\ lastOp.callback \in Range(ListOf(lastOp.type))

----------------------------------------------------------------------------
(* Properties of requests, errors and events (SpecIO).                     *)

Count(t, e) == Cardinality({k \in 1..Len(t) : t[k] = e})

\* the value a key has after the per-call options are laid over the
\* server's options
Merged(callValue, serverValue) ==
  IF callValue = "nokey" THEN serverValue ELSE callValue

\* C7: when, after merging the per-call options over the server options,
\* neither target nor forward is set, web()/ws() emits exactly one error
\* event, invokes no pass and issues no upstream request.
C7_MissingTargetOnlyEmitsError ==
  (/\ rq.kind # "none"
   /\ Merged(rq.call.target, options.target) = "undef"
   /\ Merged(rq.call.forward, options.forward) = "undef")
    => /\ rq.trace = <<"error">>
       /\ rq.invoked = <<>>
       /\ rq.up = "none"

\* a ws() call whose own options take away the server's target
C7_Witness ==
  /\ rq.kind = "ws" /\ rq.call.target = "undef" /\ options.target = "url"
  /\ options.forward = "undef" /\ rq.call.forward = "nokey"
  /\ rq.trace = <<"error">>

\* a step in which the server emitted error: a request refused for its
\* missing target, or a callback that reported a failure
EmitsError ==
  /\ rq' # rq
  /\ rq'.trace # <<>> /\ rq'.trace[Len(rq'.trace)] = "error"
  /\ rq'.up = "none" \/ Len(rq'.trace) = Len(rq.trace) + 1

Outcomes(r) ==
  {o \in {"completed", "destroyed", "error"} :
     \/ o = "completed" /\ r.sock = "ended"
     \/ o = "destroyed" /\ r.sock = "destroyed"
     \/ o = "error" /\ "error" \in Range(r.trace)}

\* nothing more can happen to the request
Settled(r) ==
  /\ r.kind # "none"
  /\ r.up \notin {"pending", "response"}
  /\ ~CanUpstreamEnd(r) /\ ~CanUpstreamFail(r)
  /\ ~CanClientEnd(r) /\ ~CanClientFail(r)

\* the requests whose whole course is modelled: every ws() request, and a
\* web() request refused for its missing target
Followed(r) == r.kind = "ws" \/ (r.kind = "web" /\ MissingTarget(r.opts))

C10_EventOrder ==
  LET t == rq.trace
  IN rq.kind = "ws"
       => /\ Count(t, "proxyReqWs") <= 1
          /\ \A j \in 1..Len(t) :
               t[j] \in {"reqEnd", "open", "close"}
                 => \E i \in 1..(j - 1) : t[i] = "proxyReqWs"
          /\ \A i, j \in 1..Len(t) :
               (t[i] = "proxyReqWs" /\ t[j] = "error") => i < j
          /\ \A j \in 1..Len(t) :
               t[j] = "close" => \E i \in 1..(j - 1) : t[i] = "open"
          /\ \A i, j \in 1..Len(t) :
               (t[i] = "error" /\ i < j) => t[j] \notin {"open", "close"}

\* the full course: announced, ended, opened, closed, then an error
C10_Witness ==
  rq.trace = <<"proxyReqWs", "reqEnd", "open", "proxySocket", "close", "error">>

----------------------------------------------------------------------------
(* Properties of the WebSocket passes (SpecWs, SpecIO).                    *)

\* the ws() call that made the request returned in this step
Dispatched == rq.kind = "none" /\ rq'.kind = "ws" /\ ~MissingTarget(rq'.opts)

\* the method is GET and the Upgrade header is "websocket" in some casing
GetWebsocket(req) ==
  req.method = "GET" /\ req.upgrade \in {"websocket", "WebSocket"}

\* C11: a WebSocket-path request that is not (GET and Upgrade equal to
\* "websocket" ignoring case) has its client socket destroyed by
\* checkMethodAndHeader and the pipeline halted: xHeaders and stream do not
\* run, no upstream request is issued and proxyReqWs is never emitted; for a
\* request that satisfies the condition the socket is not destroyed by this
\* pass and the pipeline goes on to the later passes.
C11_OnlyWebsocketPasses ==
  /\ [][Dispatched =>
          IF GetWebsocket(rq'.req)
          THEN /\ rq'.sock = "open"
               /\ rq'.rets[1] = FALSE
               /\ rq'.invoked = WsPassesInit
          ELSE /\ rq'.sock = "destroyed"
               /\ rq'.invoked = <<Builtin("checkMethodAndHeader")>>
               /\ rq'.rets = <<TRUE>>]_vars
  /\ []((rq.kind = "ws" /\ ~MissingTarget(rq.opts) /\ ~GetWebsocket(rq.req))
          => (rq.up = "none" /\ rq.trace = <<>>))

\* a GET request that asks for another protocol was turned away
C11_Witness ==
  /\ rq.kind = "ws" /\ rq.req = [method |-> "GET", upgrade |-> "h2c"]
  /\ rq.sock = "destroyed" /\ rq.invoked = <<Builtin("checkMethodAndHeader")>>

\* a step in which the outbound request or the upstream socket failed
UpstreamFailed ==
  \/ rq.up \in {"pending", "response"} /\ rq'.up = "failed"
  \/ rq.upSock \in {"open", "ended"} /\ rq'.upSock = "destroyed"

\* the failure went to the per-call callback if there is one and to the
\* server's error event if there is none
ReportedOnce ==
  rq'.trace = Append(rq.trace, IF rq.cb THEN "errorCb" ELSE "error")

\* C12 as claimed: on every upstream I/O error of a WebSocket request (of
\* the outbound request or of the upstream socket) the per-call error
\* callback, if supplied, gets the error and the server's error event is not
\* emitted; without a callback the server emits error; in both cases the
\* client socket is then ended (it is no longer open).
C12_ReportedThenEnded ==
  [][UpstreamFailed => (ReportedOnce /\ rq'.sock # "open")]_vars

\* C12 as amended: the report is as claimed; the client socket is then
\* ended unless the emit rethrew the error (no listener besides onError),
\* in which case the exception leaves the callback before socket.end() and
\* the client socket stays as it was.  A socket the default responder
\* destroyed, or that was ended or destroyed before, stays so.
C12_ReportedThenEndedUnlessRethrown ==
  [][UpstreamFailed =>
       /\ ReportedOnce
       /\ IF rq'.threw = "no"
          THEN /\ rq'.sock # "open"
               /\ rq'.sock = "ended" <=>
                    (/\ rq.sock \in {"open", "ended"}
                     /\ rq.cb \/ "responder" \notin Range(errListeners))
          ELSE /\ ~rq.cb /\ Len(errListeners) = 1
               /\ rq'.sock = rq.sock /\ crashed']_vars

\* the outbound request failed, the per-call callback got the error and the
\* client socket was ended
C12_Witness ==
  /\ rq.kind = "ws" /\ rq.cb /\ rq.up = "failed"
  /\ rq.trace = <<"proxyReqWs", "reqEnd", "errorCb">>
  /\ rq.sock = "ended"

\* a step in which the client socket went away while the outbound request
\* was waiting for the upstream's answer
ClientLeftEarly ==
  /\ rq.up = "pending" /\ rq.sock = "open"
  /\ rq'.sock = "destroyed" /\ rq'.trace = rq.trace

\* C13: if the client connection of a WebSocket request closes or errors
\* after the outbound request was issued and before the upstream responded,
\* the outbound request is aborted and the upstream socket destroyed.
C13_AbortOnEarlyClientClose ==
  [][ClientLeftEarly => (rq'.up = "aborted" /\ rq'.upSock = "destroyed")]_vars

\* the two sockets are spliced and one of the four terminal events happened:
\* upstream error, client error, upstream close, client close
Terminal(r) ==
  /\ r.up = "upgraded"
  /\ r.upSock = "destroyed" \/ r.sock = "destroyed" \/ r.upEof \/ r.clEof

\* both sockets are ended or destroyed
Released(r) ==
  r.sock \in {"ended", "destroyed"} /\ r.upSock \in {"ended", "destroyed"}

C17_ResponderAnswersEveryError ==
  [][(options.handleErrors /\ EmitsError)
       => IF rq'.kind = "web"
          THEN rq'.headersSent /\ rq'.sock \in {"ended", "destroyed"}
          ELSE rq'.sock = "destroyed"]_vars

----------------------------------------------------------------------------
(* Properties of the head written on an upgrade (SpecHeader).              *)

\* the [key, value] pairs of a headers object, an array value giving one
\* pair per element, in order
PairsOf(entry) ==
  IF entry.value.arr
  THEN [i \in 1..Len(entry.value.v) |-> <<entry.key, entry.value.v[i]>>]
  ELSE <<<<entry.key, entry.value.v[1]>>>>

Pairs(headers) == Concat([i \in 1..Len(headers) |-> PairsOf(headers[i])])

\* C15: on an upgrade the bytes written to the client are exactly
\* "HTTP/1.1 101 Switching Protocols\r\n", then one "Key: Value" line per
\* upstream header in the order presented (one line per element of an
\* array value), each line followed by \r\n, then the closing \r\n: no
\* header is added, dropped or reordered.
C15_UpgradeHeadExact ==
  (fn.name = "createHttpHeader" /\ fn.done)
    => LET out == fn.result
           pairs == Pairs(fn.args.headers)
           n == Len(pairs)
       IN /\ Len(out) = 2 + 4 * n + 1
          /\ out[1] = "HTTP/1.1 101 Switching Protocols" /\ out[2] = "\r\n"
          /\ \A i \in 1..n :
               SubSeq(out, 4 * i - 1, 4 * i + 2) = <<pairs[i][1], ": ", pairs[i][2], "\r\n">>
          /\ out[Len(out)] = "\r\n"

\* the head for an answer with a string header and an array of two cookies
C15_Witness ==
  /\ fn.name = "createHttpHeader" /\ fn.done
  /\ fn.args.headers =
       << [key |-> "upgrade", value |-> [arr |-> FALSE, v |-> <<"a">>]],
          [key |-> "set-cookie", value |-> [arr |-> TRUE, v |-> <<"a", "b">>]] >>
  /\ fn.result = << "HTTP/1.1 101 Switching Protocols", "\r\n",
                    "upgrade", ": ", "a", "\r\n",
                    "set-cookie", ": ", "a", "\r\n",
                    "set-cookie", ": ", "b", "\r\n", "\r\n" >>

----------------------------------------------------------------------------
(* Properties of the order of bytes in a tunnel (SpecTunnel).              *)

IsPrefix(s, t) == Len(s) <= Len(t) /\ s = SubSeq(t, 1, Len(s))

\* C16: the order of bytes is preserved in both directions: the upstream
\* receives the bytes of the client's head before any byte the client sent
\* afterwards, and those in the order sent; the client receives the whole
\* 101 head before any byte of the upstream, and the upstream's own head
\* before the bytes the upstream sent afterwards.
C16_ByteOrderPreserved ==
  tunnel.phase \in {"accepted", "requested", "spliced"}
    => /\ IsPrefix(tunnel.toUp, tunnel.head \o tunnel.clSent)
       /\ IsPrefix(tunnel.toCl,
                   << "HTTP/1.1 101 Switching Protocols", "\r\n",
                      "upgrade", ": ", "websocket", "\r\n", "\r\n" >>
                     \o tunnel.proxyHead \o tunnel.upSent)

\* both heads were not empty and everything was delivered, a byte the
\* client sent before ws() was called included
C16_Witness ==
  /\ tunnel.phase = "spliced"
  /\ tunnel.head = <<"h1", "h2">> /\ tunnel.proxyHead = <<"p1">>
  /\ tunnel.toUp = <<"h1", "h2", "c1", "c2">>
  /\ Len(tunnel.toCl) = 7 + 3

----------------------------------------------------------------------------
(* Properties of listen and close (SpecListen).                            *)

\* the callback of call k is registered on the close event of a listener
\* that is closing
Pending(k) ==
  \E i \in 1..Len(srv.servers) :
    /\ srv.servers[i].state = "closing"
    /\ \E j \in 1..Len(srv.servers[i].waiting) : srv.servers[i].waiting[j].call = k

\* C18: every close(cb) eventually invokes cb exactly once, with the
\* arguments of the listener's close, for any sequence of listen and close
\* calls, close without a listen before it and close called twice included:
\* at any time the callback of a call has run once, or it has not run and
\* is registered on a listener whose close event is still to come.
C18_CallbackRunsOnce ==
  \A k \in 1..Len(srv.calls) :
    \/ srv.calls[k].ran = 1
    \/ srv.calls[k].ran = 0 /\ Pending(k)

----------------------------------------------------------------------------
(* Properties of the outbound descriptor (SpecOutgoing).                   *)

Described == fn.name = "setupOutgoing" /\ fn.done

\* the port the request goes to: the explicit one, else 443 for a TLS
\* scheme, else 80
EffectivePort(target) ==
  IF target.port # 0 THEN target.port
  ELSE IF target.protocol \in {"https:", "wss:"} THEN 443 ELSE 80

\* the well-known port of the scheme
WellKnownPort(protocol) == IF protocol \in {"https:", "wss:"} THEN 443 ELSE 80

\* with changeOrigin the Host header is the target host, with ":" and the
\* port appended iff the port is not the scheme's well-known one and the
\* host does not contain a port already
HostOfTarget ==
  LET target == fn.args.options.target
      port == EffectivePort(target)
  IN fn.args.options.changeOrigin
       => fn.result.headers.host =
            IF port # WellKnownPort(target.protocol) /\ target.host = <<"up.example">>
            THEN <<"up.example", ":", PortStr(port)>>
            ELSE target.host

\* C19 as claimed: with changeOrigin true the Host header is the target
\* host with the port appended iff the port (explicit, else 443 for a TLS
\* scheme, else 80) is not the well-known port of the scheme and the host
\* has no port yet; without changeOrigin the inbound Host header is passed
\* through unchanged.
C19_HostHeader ==
  Described
    => /\ HostOfTarget
       /\ ~fn.args.options.changeOrigin
            => fn.result.headers.host = fn.args.req.headers.host

\* C19 as amended: without changeOrigin the Host header is the inbound one
\* unless options.headers holds a host, which then replaces it.
C19_HostHeaderOrOverlay ==
  Described
    => /\ HostOfTarget
       /\ ~fn.args.options.changeOrigin
            => fn.result.headers.host =
                 IF fn.args.options.headers.has THEN fn.args.options.headers.host
                 ELSE fn.args.req.headers.host

\* an https target on port 8080 whose host has no port: the port was appended
C19_Witness ==
  /\ Described /\ fn.args.options.changeOrigin
  /\ fn.args.options.target.protocol = "https:"
  /\ fn.args.options.target.port = 8080
  /\ fn.args.options.target.host = <<"up.example">>
  /\ fn.result.headers.host = <<"up.example", ":", "8080">>

\* C20: the outbound path is urlJoin(targetPath, inboundPath): targetPath is
\* the target's path iff prependPath is not false (else empty), inboundPath
\* is the parsed path of req.url unless toProxy is set (then the raw
\* req.url), and is emptied iff ignorePath is set; target path /api and
\* inbound /v1/users give /api/v1/users, and /api with ignorePath.
C20_OutboundPath ==
  Described
    => LET o == fn.args.options
           targetPath == IF o.prependPath = "false" THEN <<>> ELSE o.target.path
           inboundPath == IF o.ignorePath THEN <<>>
                          ELSE IF o.toProxy THEN fn.args.req.url
                          ELSE UrlParsePath(fn.args.req.url)
       IN /\ fn.result.path = UrlJoin(<<targetPath, inboundPath>>)
          /\ (/\ o.target.path = <<"/", "api">> /\ o.prependPath # "false"
              /\ fn.args.req.url = <<"/", "v1", "/", "users">>)
               => fn.result.path = IF o.ignorePath THEN <<"/", "api">>
                                   ELSE <<"/", "api", "/", "v1", "/", "users">>
          /\ (/\ o.prependPath = "false" /\ ~o.ignorePath /\ ~o.toProxy
              /\ fn.args.req.url = <<"/", "v1", "/", "users", "?", "a=1">>)
               => fn.result.path = <<"/", "v1", "/", "users", "?", "a=1">>

\* the example of the claim: /api and /v1/users joined
C20_Witness ==
  /\ Described
  /\ fn.args.options.target.path = <<"/", "api">>
  /\ fn.args.options.prependPath = "undefined" /\ ~fn.args.options.ignorePath
  /\ fn.args.req.url = <<"/", "v1", "/", "users">>
  /\ fn.result.path = <<"/", "api", "/", "v1", "/", "users">>

----------------------------------------------------------------------------
(* Properties of the x-forwarded-* headers (SpecXfwd).                     *)

\* n times the entry e, separated by commas, after what was there before
Accumulated(before, e, n) ==
  LET entries == (IF before.v # <<>> THEN <<before.v>> ELSE <<>>)
                   \o [k \in 1..n |-> <<e>>]
  IN Join(entries, <<",">>)

\* C21: with options.xfwd each run of xHeaders appends to x-forwarded-for,
\* -port and -proto: the old value, a comma, the new value (no comma when
\* the header was absent or empty), so n runs on the same headers give n
\* comma-separated entries in call order; without xfwd the headers are
\* left unchanged.
C21_ForwardedAccumulate ==
  fn.name = "xHeaders"
    => LET req == fn.args.req
           now == fn.result
           port == IF req.host.set /\ req.host.v = <<"in.example", ":", "8443">>
                   THEN "8443" ELSE IF req.encrypted THEN "443" ELSE "80"
       IN IF fn.args.xfwd /\ fn.runs > 0
          THEN /\ now.for = [set |-> TRUE, v |-> Accumulated(req.for, "10.0.0.7", fn.runs)]
               /\ now.port = [set |-> TRUE, v |-> Accumulated(req.port, port, fn.runs)]
               /\ now.proto = [set |-> TRUE,
                               v |-> Accumulated(req.proto,
                                                 IF req.encrypted THEN "wss" ELSE "ws",
                                                 fn.runs)]
               /\ [now EXCEPT !.for = req.for, !.port = req.port, !.proto = req.proto] = req
          ELSE now = req

\* two runs on a request that came through an earlier proxy
C21_Witness ==
  /\ fn.name = "xHeaders" /\ fn.runs = 2 /\ fn.args.xfwd
  /\ fn.result.for.v = <<"earlier", ",", "10.0.0.7", ",", "10.0.0.7">>
  /\ fn.result.port.v = <<"8443", ",", "8443">>

----------------------------------------------------------------------------
(* Properties of the descriptor of the upstream request (SpecDescriptor).  *)

Requested == fn.name = "request" /\ fn.done

\* C22: setupOutgoing takes the agent by the target scheme: options.httpAgent
\* when the scheme is not TLS (http:, ws:), options.httpsAgent when it is
\* (https:, wss:); when the option chosen is absent the agent is false.
C22_AgentByScheme ==
  Requested
    => LET o == fn.args.options
           chosen == IF o.target.protocol \in {"http:", "ws:"} THEN o.httpAgent
                     ELSE o.httpsAgent
       IN fn.result.agent = IF chosen = "undefined" THEN "false" ELSE chosen

\* C24: the descriptor handed to http(s).request carries the key and cert of
\* options.ssl merged with options.requestOptions: setupOutgoing leaves
\* these fields at the values taken from options.ssl / options.requestOptions.
C24_TlsFieldsKept ==
  (Requested /\ fn.args.options.ssl.set)
    => LET o == fn.args.options
       IN /\ fn.result.key = IF o.requestOptions.set /\ o.requestOptions.key # "undefined"
                             THEN o.requestOptions.key ELSE o.ssl.key
          /\ fn.result.cert = o.ssl.cert

----------------------------------------------------------------------------
(* Properties of urlJoin (SpecJoin).                                       *)

Joined == fn.name = "urlJoin" /\ fn.done

\* the elements of str at the positions in idx, in order
Pick(str, idx) ==
  [k \in 1..Cardinality(idx) |->
     str[CHOOSE i \in idx : Cardinality({j \in idx : j <= i}) = k]]

\* str with each run of slashes reduced to one slash
Squeeze(str) ==
  Pick(str, {i \in 1..Len(str) : ~(str[i] = "/" /\ i > 1 /\ str[i - 1] = "/")})

\* the position of the first ? of str, Len(str) + 1 if it has none
FirstQ(str) ==
  IF \E i \in 1..Len(str) : str[i] = "?"
  THEN CHOOSE i \in 1..Len(str) : str[i] = "?" /\ \A j \in 1..(i - 1) : str[j] # "?"
  ELSE Len(str) + 1

PathOf(str) == SubSeq(str, 1, FirstQ(str) - 1)
QueryOf(str) == SubSeq(str, FirstQ(str), Len(str))

\* two adjacent slashes occur only as the "//" directly after http: or https:
SlashesCollapsed(path) ==
  \A i \in 1..(Len(path) - 1) :
    (path[i] = "/" /\ path[i + 1] = "/")
      => /\ i > 1 /\ path[i - 1] \in {"http:", "https:"}
         /\ i + 2 <= Len(path) => path[i + 2] # "/"

\* the result of urlJoin(a, b): its path has collapsed slashes, and what
\* follows the first ? of b is carried over verbatim
CollapsedAndQueryKept ==
  LET q == QueryOf(fn.args.b)
      r == fn.result.both
  IN /\ Len(r) >= Len(q)
     /\ SubSeq(r, Len(r) - Len(q) + 1, Len(r)) = q
     /\ SlashesCollapsed(SubSeq(r, 1, Len(r) - Len(q)))

Plain(str) ==
  \A i \in 1..(Len(str) - 1) :
    str[i + 1] = "/" => str[i] \notin {"/", "http:", "https:"}

----------------------------------------------------------------------------
(* Properties of the options record across requests (SpecDispatch).        *)

\* C25: dispatching a request through web()/ws() never changes the server's
\* options record; each invocation sees the options the server was built
\* with overlaid with its own per-call options (target and forward
\* resolved), so a request without per-call options sees the original ones.
C25_ServerOptionsUntouched ==
  [][/\ options' = options
     /\ rq'.opts = ResolveOptions(MergeOptions(fn.args.options, rq'.call))]_vars

----------------------------------------------------------------------------
(* Properties of the stream pass under the accepted configurations         *)
(* (SpecIO).                                                               *)

\* the walk of the ws passes reached stream
StreamRan ==
  \E i \in 1..Len(rq'.invoked) : rq'.invoked[i] = Builtin("stream")

\* C26: whenever the ws stream pass runs the effective options have a
\* target: every configuration the executor accepts for a ws request
\* (target set, or forward set without target) lets the ws pipeline run to
\* the end of stream without a synchronous exception.
C26_StreamHasTarget ==
  [][(Dispatched /\ StreamRan)
       => /\ Truthy(rq'.opts.target)
          /\ rq'.threw = "no"]_vars

====
